---- MODULE Spec2Model ----
(***************************************************************************)
(* Model of bot.py: a Telegram bot relaying text to a Gemini chat session. *)
(*                                                                         *)
(* Texts are sequences of one-character strings.  The handlers are         *)
(* coroutines: each action below runs one handler from an await point to   *)
(* the next one.  outbox and backend_log record what the handlers of the   *)
(* events in flight asked of the transport and of the backend.             *)
(***************************************************************************)
EXTENDS Integers, Sequences, FiniteSets, TLC

(***************************************************************************)
(* Characters and text primitives (Python str methods used by bot.py)      *)
(***************************************************************************)

\* whitespace removed by str.strip() and matched by \s, as far as the
\* alphabet of the model goes
Whitespace == {" ", "\n", "\t"}

\* [ch] * n
Rep(ch, n) == [i \in 1..n |-> ch]

\* str.strip(): drop leading and trailing whitespace
Strip(s) ==
    IF \A i \in 1..Len(s) : s[i] \in Whitespace
    THEN <<>>
    ELSE LET first == CHOOSE i \in 1..Len(s) :
                          /\ s[i] \notin Whitespace
                          /\ \A j \in 1..(i - 1) : s[j] \in Whitespace
             back  == CHOOSE k \in 0..(Len(s) - 1) :
                          /\ s[Len(s) - k] \notin Whitespace
                          /\ \A j \in 0..(k - 1) : s[Len(s) - j] \in Whitespace
         IN  SubSeq(s, first, Len(s) - back)

\* sub occurs in s at (1-based) position i
MatchAt(s, sub, i) ==
    /\ i + Len(sub) - 1 <= Len(s)
    /\ \A j \in 1..Len(sub) : s[i + j - 1] = sub[j]

\* `sub in s`
Contains(s, sub) == \E i \in 1..Len(s) : MatchAt(s, sub, i)

\* first position >= from where sub occurs in s, 0 if none
FindFrom(s, sub, from) ==
    IF \E i \in from..Len(s) : MatchAt(s, sub, i)
    THEN CHOOSE i \in from..Len(s) :
             /\ MatchAt(s, sub, i)
             /\ \A j \in from..(i - 1) : ~MatchAt(s, sub, j)
    ELSE 0

\* s[from:] with every non-overlapping occurrence of sub, scanning left to
\* right, removed
RECURSIVE ReplaceFrom(_, _, _)
ReplaceFrom(s, sub, from) ==
    LET m == FindFrom(s, sub, from)
    IN  IF m = 0
        THEN SubSeq(s, from, Len(s))
        ELSE SubSeq(s, from, m - 1) \o ReplaceFrom(s, sub, m + Len(sub))

\* s.replace(sub, ""): str.replace without a count replaces all occurrences
RemoveAll(s, sub) == ReplaceFrom(s, sub, 1)

\* s.rfind(ch, 0, end): greatest 0-based index i < min(end, len(s)) with
\* s[i] = ch, -1 if none
RFind(s, ch, end) ==
    LET hi == IF end < Len(s) THEN end ELSE Len(s)
    IN  IF \A i \in 1..hi : s[i] # ch
        THEN -1
        ELSE LET k == CHOOSE k \in 0..(hi - 1) :
                          /\ s[hi - k] = ch
                          /\ \A j \in 0..(k - 1) : s[hi - j] # ch
             IN  hi - k - 1

\* s[:n] and s[n:] for n >= 0
Take(s, n) == SubSeq(s, 1, IF n < Len(s) THEN n ELSE Len(s))
Drop(s, n) == SubSeq(s, n + 1, Len(s))

(***************************************************************************)
(* split_message                                                           *)
(***************************************************************************)

SplitStepCutOneMore(remaining_text, max_chunk_length) ==
    LET nl == RFind(remaining_text, "\n", max_chunk_length)
        sp == RFind(remaining_text, " ", max_chunk_length)
        split_point == IF nl # -1 THEN nl ELSE sp
    IN  IF split_point # -1
        THEN << Strip(Take(remaining_text, split_point)),
                Strip(Drop(remaining_text, split_point)) >>
        ELSE << Take(remaining_text, max_chunk_length + 1),
                Drop(remaining_text, max_chunk_length + 1) >>

SplitStepSkipOne(remaining_text, max_chunk_length) ==
    LET nl == RFind(remaining_text, "\n", max_chunk_length)
        sp == RFind(remaining_text, " ", max_chunk_length)
        split_point == IF nl # -1 THEN nl ELSE sp
    IN  IF split_point # -1
        THEN << Strip(Take(remaining_text, split_point)),
                Strip(Drop(remaining_text, split_point)) >>
        ELSE << Take(remaining_text, max_chunk_length),
                Drop(remaining_text, max_chunk_length + 1) >>

SplitStepSpaceFirst(remaining_text, max_chunk_length) ==
    LET nl == RFind(remaining_text, "\n", max_chunk_length)
        sp == RFind(remaining_text, " ", max_chunk_length)
        split_point == IF sp # -1 THEN sp ELSE nl
    IN  IF split_point # -1
        THEN << Strip(Take(remaining_text, split_point)),
                Strip(Drop(remaining_text, split_point)) >>
        ELSE << Take(remaining_text, max_chunk_length),
                Drop(remaining_text, max_chunk_length) >>

SplitStepNewlineLeft(remaining_text, max_chunk_length) ==
    LET nl == RFind(remaining_text, "\n", max_chunk_length)
        sp == RFind(remaining_text, " ", max_chunk_length)
        split_point == IF nl # -1 THEN nl ELSE sp
    IN  IF split_point # -1
        THEN << Strip(Take(remaining_text, split_point)),
                IF nl # -1 THEN Drop(remaining_text, split_point)
                ELSE Strip(Drop(remaining_text, split_point)) >>
        ELSE << Take(remaining_text, max_chunk_length),
                Drop(remaining_text, max_chunk_length) >>

\* one iteration of the while loop: <<chunk appended, new remaining_text>>
SplitStep(remaining_text, max_chunk_length) ==
    LET nl == RFind(remaining_text, "\n", max_chunk_length)
        sp == RFind(remaining_text, " ", max_chunk_length)
        split_point == IF nl # -1 THEN nl ELSE sp
    IN  IF split_point # -1
        THEN << Strip(Take(remaining_text, split_point)),
                Strip(Drop(remaining_text, split_point)) >>
        ELSE << Take(remaining_text, max_chunk_length),
                Drop(remaining_text, max_chunk_length) >>

\* the list `chunks` when the function reaches its return statement
RECURSIVE SplitLoop(_, _, _)
SplitLoop(chunks, remaining_text, max_chunk_length) ==
    IF Len(remaining_text) > max_chunk_length
    THEN LET st == SplitStep(remaining_text, max_chunk_length)
         IN  SplitLoop(Append(chunks, st[1]), st[2], max_chunk_length)
    ELSE IF Strip(remaining_text) # <<>>
         THEN Append(chunks, Strip(remaining_text))
         ELSE chunks

NonEmpty(chunk) == chunk # <<>>

split_message(text, max_chunk_length) ==
    SelectSeq(SplitLoop(<<>>, text, max_chunk_length), NonEmpty)

(***************************************************************************)
(* format_titles_with_low_line                                             *)
(***************************************************************************)

COMBINING_LOW_LINE == "u0332"

\* number of leading characters of s that belong to S
LeadingCount(s, S) ==
    IF \A i \in 1..Len(s) : s[i] \in S
    THEN Len(s)
    ELSE (CHOOSE i \in 1..Len(s) :
              /\ s[i] \notin S
              /\ \A j \in 1..(i - 1) : s[j] \in S) - 1

\* str.splitlines(), for texts whose only line boundary is "\n"
RECURSIVE SplitLines(_)
SplitLines(s) ==
    IF s = <<>>
    THEN <<>>
    ELSE LET n == FindFrom(s, <<"\n">>, 1)
         IN  IF n = 0
             THEN <<s>>
             ELSE <<SubSeq(s, 1, n - 1)>> \o SplitLines(Drop(s, n))

\* "\n".join(lines)
RECURSIVE JoinLines(_)
JoinLines(lines) ==
    IF lines = <<>> THEN <<>>
    ELSE IF Len(lines) = 1 THEN lines[1]
    ELSE lines[1] \o <<"\n">> \o JoinLines(Tail(lines))

\* "".join(c + COMBINING_LOW_LINE for c in title_text)
Underline(title_text) ==
    [i \in 1..(2 * Len(title_text)) |->
        IF i % 2 = 1 THEN title_text[(i + 1) \div 2] ELSE COMBINING_LOW_LINE]

FormatLineEveryLine(line) ==
    IF Strip(line) # <<>> THEN Underline(line) ELSE line

\* the body of the for loop: re.match(r"^(#+)(\s+)(.*)", line)
FormatLine(line) ==
    LET hashes     == LeadingCount(line, {"#"})
        rest       == Drop(line, hashes)
        space      == LeadingCount(rest, Whitespace)
        title_text == Drop(rest, space)
    IN  IF hashes >= 1 /\ space >= 1 /\ Strip(title_text) # <<>>
        THEN Take(line, hashes + space) \o Underline(title_text)
        ELSE line

format_titles_with_low_line(text_block) ==
    LET lines == SplitLines(text_block)
    IN  JoinLines([i \in 1..Len(lines) |-> FormatLine(lines[i])])

(***************************************************************************)
(* Configuration                                                           *)
(***************************************************************************)

MAX_USER_MESSAGE_CHARS == 3000
MAX_TELEGRAM_MESSAGE_CHARS == 4000

\* the chats updates come from, and chat.type of each
ChatIds == {"user_chat", "allowed_channel", "other_channel", "group_chat"}

ChatType(chat_id) ==
    CASE chat_id = "user_chat"       -> "private"
      [] chat_id = "allowed_channel" -> "channel"
      [] chat_id = "other_channel"   -> "channel"
      [] chat_id = "group_chat"      -> "group"

ALLOWED_CHANNEL_IDS == {"allowed_channel"}

bot_username == <<"b", "o", "t">>

\* f"@{bot_username}"
Mention == <<"@">> \o bot_username

\* str(n) for n >= 0
DigitChars == <<"0", "1", "2", "3", "4", "5", "6", "7", "8", "9">>

RECURSIVE Str(_)
Str(n) ==
    IF n < 10 THEN <<DigitChars[n + 1]>>
    ELSE Str(n \div 10) \o <<DigitChars[(n % 10) + 1]>>

PartHeaderAlways(i, n) ==
    <<"(", "P", "a", "r", "t", " ">> \o Str(i + 1) \o <<"/">> \o Str(n)
        \o <<")", "\n", "\n">>

\* f"(Part {i+1}/{len(message_parts)})\n\n" if len(message_parts) > 1 else ""
PartHeader(i, n) ==
    IF n > 1
    THEN <<"(", "P", "a", "r", "t", " ">> \o Str(i + 1) \o <<"/">> \o Str(n)
             \o <<")", "\n", "\n">>
    ELSE <<>>

FinalMessageReversed(message_parts, i) ==
    PartHeader(i, Len(message_parts))
        \o message_parts[Len(message_parts) - i]

FinalMessageUntruncated(message_parts, i) ==
    PartHeader(i, Len(message_parts)) \o message_parts[i + 1]

\* final_message_to_send for message_parts[i] (i counts from 0)
FinalMessage(message_parts, i) ==
    LET part_content == message_parts[i + 1]
        part_header  == PartHeader(i, Len(message_parts))
        composed     == part_header \o part_content
        allowed_content_len ==
            IF MAX_TELEGRAM_MESSAGE_CHARS - Len(part_header) < 0 THEN 0
            ELSE MAX_TELEGRAM_MESSAGE_CHARS - Len(part_header)
    IN  IF Len(composed) > MAX_TELEGRAM_MESSAGE_CHARS
        THEN part_header \o Take(part_content, allowed_content_len)
        ELSE composed

\* the signals the except clause of handle_message looks for in str(e)
Signals == {"model not found", "too many tokens", "deadline exceeded",
            "permission denied", "quota"}

ErrorMessageGeneric(e) == "generic_error"

\* error_message chosen by the if/elif chain, e being the set of signals
\* that occur in str(e).lower()
ErrorMessage(e) ==
    IF "model not found" \in e THEN "model_not_found"
    ELSE IF "too many tokens" \in e THEN "conversation_too_long"
    ELSE IF "deadline exceeded" \in e THEN "took_too_long"
    ELSE IF "permission denied" \in e THEN "authentication_error"
    ELSE IF "quota" \in e THEN "usage_limit"
    ELSE "generic_error"

(***************************************************************************)
(* Inputs                                                                  *)
(***************************************************************************)

MaxEvents == 3

\* the coroutines the application may run
Slots == {1, 2}

X(n) == Rep("x", n)

\* message.text of the updates delivered (filters.TEXT: never empty)
MessageTexts ==
    { <<" ">>,
      <<"h", "i">>,
      Mention,
      <<" ">> \o Mention \o <<" ", "h", "i", "\n">>,
      Mention \o <<" ">> \o Mention \o <<" ", "h", "i">>,
      Mention \o Mention,
      <<" ">> \o X(MAX_USER_MESSAGE_CHARS) \o <<"\n">>,
      X(MAX_USER_MESSAGE_CHARS + 1),
      Mention \o <<" ">> \o X(MAX_USER_MESSAGE_CHARS),
      Mention \o X(MAX_USER_MESSAGE_CHARS + 1) }

\* api_response.text of the replies the backend gives
ReplyTexts ==
    { <<>>,
      <<" ", "\n">>,
      <<"#", " ", "T", "\n", "o", "k">>,
      X(MAX_TELEGRAM_MESSAGE_CHARS - 25),
      X(MAX_TELEGRAM_MESSAGE_CHARS - 24),
      X(MAX_TELEGRAM_MESSAGE_CHARS - 30) \o <<" ">> \o X(MAX_TELEGRAM_MESSAGE_CHARS) }

\* the exceptions the backend may raise, each given by the signals that
\* occur in its text
Exceptions == { {} } \cup { {sig} : sig \in Signals }

\* the exceptions the transport may raise
TransportExceptions == { {}, {"deadline exceeded"} }

\* what chat.send_message(user_message_text) does
BackendOutcomes ==
    { [ok |-> TRUE, text |-> r, e |-> {}] : r \in ReplyTexts }
        \cup { [ok |-> FALSE, text |-> <<>>, e |-> e] : e \in Exceptions }

\* new_chat_member.status of the my_chat_member updates delivered
Statuses == {"administrator", "member", "left", "kicked"}

(***************************************************************************)
(* State                                                                   *)
(***************************************************************************)

VARIABLES
    gemini_model,       \* TRUE iff the module-level gemini_model is not None
    user_gemini_chats,  \* the dict: chat id -> chat session [id, history]
    sessions_started,   \* number of session objects start_chat has returned
    arrivals,           \* number of updates dispatched so far
    event,              \* the update dispatched last
    pc,                 \* per coroutine: "idle" or the await it is suspended at
    frame,              \* per coroutine: the locals that live across awaits
    outbox,             \* sends asked of the transport by the events in flight
    backend_log,        \* calls made to the backend by the events in flight
    split_call,         \* a call of split_message followed through its loop
    reply_call,         \* a reply followed through lines 237-252
    compose_call        \* a list of parts followed through the loop of line 258

vars == << gemini_model, user_gemini_chats, sessions_started, arrivals, event,
           pc, frame, outbox, backend_log, split_call, reply_call,
           compose_call >>

\* the calls followed on their own
calls == << split_call, reply_call, compose_call >>

\* the variables of the bot
bot == << gemini_model, user_gemini_chats, sessions_started, arrivals, event,
          pc, frame, outbox, backend_log >>

NoFrame ==
    [ ev |-> 0, handler |-> "none", chat_id |-> "none",
      is_allowed_channel_interaction |-> FALSE, message_parts |-> <<>>, i |-> 0 ]

NoEvent ==
    [ ev |-> 0, handler |-> "none", chat_id |-> "none", text |-> <<>>,
      new_status |-> "none", can_post |-> FALSE ]

\* user_gemini_chats = {}
EmptyDict == [k \in {} |-> NoFrame]

NoCall ==
    [ text |-> <<>>, max_chunk_length |-> 0, remaining_text |-> <<>>,
      chunks |-> <<>>, at |-> "none" ]

BotInit ==
    /\ gemini_model \in BOOLEAN
    /\ user_gemini_chats = EmptyDict
    /\ sessions_started = 0
    /\ arrivals = 0
    /\ event = NoEvent
    /\ pc = [s \in Slots |-> "idle"]
    /\ frame = [s \in Slots |-> NoFrame]
    /\ outbox = << >>
    /\ backend_log = << >>

NoReplyCall ==
    [ raw_gemini_text |-> <<>>, formatted_gemini_text |-> <<>>,
      message_parts |-> <<>>, at |-> "none" ]

NoComposeCall ==
    [ message_parts |-> <<>>, i |-> 0, final_message_to_send |-> <<>>,
      at |-> "none" ]

Init ==
    /\ BotInit
    /\ split_call = NoCall /\ reply_call = NoReplyCall /\ compose_call = NoComposeCall

(***************************************************************************)
(* Bookkeeping shared by the handlers                                      *)
(***************************************************************************)

\* Application.builder().token(BOT_TOKEN).build() leaves concurrent_updates
\* off: the application takes the next update from its queue when the
\* handler of the one before has returned and the update is done with
CanDispatch(s) ==
    /\ arrivals < MaxEvents
    /\ \A t \in Slots : pc[t] = "idle"
    /\ event = NoEvent
    /\ s = 1

Dispatched(handler, chat_id, text, new_status, can_post) ==
    /\ arrivals' = arrivals + 1
    /\ event' = [ ev |-> arrivals + 1, handler |-> handler, chat_id |-> chat_id,
                  text |-> text, new_status |-> new_status, can_post |-> can_post ]

\* a send handed to the transport: context.bot.send_message(chat_id, ...) or
\* message.reply_text(...) / reply_html(...), which answers in message.chat
Send(ev, by, chat_id, via, kind, text) ==
    [ ev |-> ev, by |-> by, chat_id |-> chat_id, via |-> via, kind |-> kind,
      text |-> text, status |-> "pending" ]

\* the handler returns
Returns(s) ==
    /\ pc' = [pc EXCEPT ![s] = "idle"]
    /\ frame' = [frame EXCEPT ![s] = NoFrame]

\* the handler suspends at an await
Awaits(s, label, fr) ==
    /\ pc' = [pc EXCEPT ![s] = label]
    /\ frame' = [frame EXCEPT ![s] = fr]

\* `await context.bot.send_message` if is_allowed_channel_interaction else
\* `await message.reply_text`
Answer(fr, kind, text) ==
    Send(fr.ev, "handle_message", fr.chat_id,
         IF fr.is_allowed_channel_interaction THEN "send_message" ELSE "reply_text",
         kind, text)

(***************************************************************************)
(* handle_message                                                          *)
(***************************************************************************)

Decision(should_process, is_allowed_channel_interaction, user_message_text) ==
    [ should_process |-> should_process,
      is_allowed_channel_interaction |-> is_allowed_channel_interaction,
      user_message_text |-> user_message_text ]

\* lines 182-184
AdmitPrivate(user_message_text) == Decision(TRUE, FALSE, user_message_text)

AdmitChannelAny(chat_id, user_message_text) == Decision(TRUE, TRUE, user_message_text)

\* lines 185-192
AdmitChannel(chat_id, user_message_text) ==
    IF chat_id \in ALLOWED_CHANNEL_IDS
    THEN Decision(TRUE, TRUE, user_message_text)
    ELSE Decision(FALSE, FALSE, user_message_text)

\* s with the first occurrence of sub removed: s.replace(sub, "", 1)
RemoveFirst(s, sub) ==
    LET m == FindFrom(s, sub, 1)
    IN  IF m = 0 THEN s ELSE SubSeq(s, 1, m - 1) \o Drop(s, m + Len(sub) - 1)

AdmitGroupFirstOnly(user_message_text) ==
    IF Contains(user_message_text, Mention)
    THEN LET stripped == Strip(RemoveFirst(user_message_text, Mention))
         IN  Decision(stripped # <<>>, FALSE, stripped)
    ELSE Decision(FALSE, FALSE, user_message_text)

AdmitGroupUngated(user_message_text) ==
    LET stripped == Strip(RemoveAll(user_message_text, Mention))
    IN  Decision(stripped # <<>>, FALSE, stripped)

\* lines 193-204
AdmitGroup(user_message_text) ==
    IF Contains(user_message_text, Mention)
    THEN LET stripped == Strip(RemoveAll(user_message_text, Mention))
         IN  Decision(stripped # <<>>, FALSE, stripped)
    ELSE Decision(FALSE, FALSE, user_message_text)

\* lines 175-204: should_process, is_allowed_channel_interaction and
\* user_message_text when the classification is over
Admission(chat_id, text) ==
    LET user_message_text == Strip(text)
        chat_type == ChatType(chat_id)
    IN  IF chat_type = "private" THEN AdmitPrivate(user_message_text)
        ELSE IF chat_type = "channel" THEN AdmitChannel(chat_id, user_message_text)
        ELSE IF chat_type \in {"group", "supergroup"} THEN AdmitGroup(user_message_text)
        ELSE Decision(FALSE, FALSE, user_message_text)

\* Admission on the inputs of the model, computed once
AdmissionOf == [ c \in ChatIds |-> [ t \in MessageTexts |-> Admission(c, t) ] ]

\* line 206: the event goes on to the length guard
Admitted(adm) == adm.should_process /\ adm.user_message_text # <<>>

TooLongOrEqual(user_message_text) == Len(user_message_text) >= MAX_USER_MESSAGE_CHARS

\* line 211
TooLong(user_message_text) == Len(user_message_text) > MAX_USER_MESSAGE_CHARS

NeedsSessionAlways(chats, context_key) == TRUE

\* line 222: a session has to be created for context_key
NeedsSession(chats, context_key) == context_key \notin DOMAIN chats

\* line 224: user_gemini_chats[context_key] = gemini_model.start_chat(history=[])
StoreNew(chats, context_key, id) ==
    [ k \in DOMAIN chats \cup {context_key} |->
        IF k = context_key THEN [id |-> id, history |-> << >>] ELSE chats[k] ]

RecordTurnInFront(chats, context_key, ev) ==
    [ chats EXCEPT ![context_key].history = << ev >> \o @ ]

\* line 235, ChatSession.send_message succeeding: the session object keeps
\* the turn of event ev in its history
RecordTurn(chats, context_key, ev) ==
    [ chats EXCEPT ![context_key].history = Append(@, ev) ]

\* line 238
EffectivelyEmpty(raw_gemini_text) ==
    raw_gemini_text = <<>> \/ Strip(raw_gemini_text) = <<>>

\* lines 245-252
MessageParts(raw_gemini_text) ==
    split_message(format_titles_with_low_line(raw_gemini_text),
                  MAX_TELEGRAM_MESSAGE_CHARS - 25)

\* MessageParts on the replies of the model, computed once
PartsOf == [ r \in ReplyTexts |-> MessageParts(r) ]

\* lines 164-168
NotConfigured(s, fr) ==
    /\ UNCHANGED backend_log
    /\ UNCHANGED << user_gemini_chats, sessions_started >>
    /\ IF ChatType(fr.chat_id) = "private"
       THEN /\ outbox' = Append(outbox,
                    Send(fr.ev, "handle_message", fr.chat_id, "reply_text",
                         "not_configured", <<>>))
            /\ Awaits(s, "await_not_configured", fr)
       ELSE /\ UNCHANGED outbox
            /\ Returns(s)

\* the returns of lines 192, 202, 204 and 209
Rejected(s) ==
    /\ UNCHANGED backend_log
    /\ UNCHANGED outbox
    /\ UNCHANGED << user_gemini_chats, sessions_started >>
    /\ Returns(s)

\* lines 211-219
InputTooLong(s, fr) ==
    /\ UNCHANGED backend_log
    /\ outbox' = Append(outbox, Answer(fr, "too_long", <<>>))
    /\ UNCHANGED << user_gemini_chats, sessions_started >>
    /\ Awaits(s, "await_too_long", fr)

SessionInitErrorUnanswered(s, fr) ==
    /\ backend_log' = Append(backend_log,
            [ ev |-> fr.ev, op |-> "start_chat", chat_id |-> fr.chat_id,
              text |-> <<>>, ok |-> FALSE, e |-> {}, session |-> 0,
              reply |-> <<>> ])
    /\ UNCHANGED << outbox, user_gemini_chats, sessions_started >>
    /\ Returns(s)

\* lines 226-231: start_chat raised
SessionInitError(s, fr) ==
    /\ backend_log' = Append(backend_log,
            [ ev |-> fr.ev, op |-> "start_chat", chat_id |-> fr.chat_id,
              text |-> <<>>, ok |-> FALSE, e |-> {}, session |-> 0,
              reply |-> <<>> ])
    /\ outbox' = Append(outbox, Answer(fr, "start_error", <<>>))
    /\ UNCHANGED << user_gemini_chats, sessions_started >>
    /\ Awaits(s, "await_start_error", fr)

\* lines 221-272 when no session had to be created or start_chat returned
\* one, up to the first await; out is what send_message does
Converse(s, fr, user_message_text, out) ==
    LET context_key == fr.chat_id
        fresh  == NeedsSession(user_gemini_chats, context_key)
        chats1 == IF fresh
                  THEN StoreNew(user_gemini_chats, context_key, sessions_started + 1)
                  ELSE user_gemini_chats
        log1   == IF fresh
                  THEN Append(backend_log,
                           [ ev |-> fr.ev, op |-> "start_chat", chat_id |-> context_key,
                             text |-> <<>>, ok |-> TRUE, e |-> {},
                             session |-> chats1[context_key].id,
                             reply |-> <<>> ])
                  ELSE backend_log
        request == [ ev |-> fr.ev, op |-> "send_message", chat_id |-> context_key,
                    text |-> user_message_text, ok |-> out.ok, e |-> out.e,
                    session |-> chats1[context_key].id, reply |-> out.text ]
        parts  == PartsOf[out.text]
        fr1    == [fr EXCEPT !.message_parts = parts, !.i = 0]
    IN  /\ sessions_started' = IF fresh THEN sessions_started + 1 ELSE sessions_started
        /\ backend_log' = Append(log1, request)
        /\ IF ~out.ok
           THEN \* except clause, lines 276-288
                /\ user_gemini_chats' = chats1
                /\ outbox' = Append(outbox, Answer(fr, ErrorMessage(out.e), <<>>))
                /\ Awaits(s, "await_error", fr)
           ELSE /\ user_gemini_chats' = RecordTurn(chats1, context_key, fr.ev)
                /\ IF EffectivelyEmpty(out.text) \/ parts = <<>>
                   THEN /\ UNCHANGED outbox
                        /\ Returns(s)
                   ELSE /\ outbox' = Append(outbox,
                                Answer(fr1, "part", FinalMessage(parts, 0)))
                        /\ Awaits(s, "await_part", fr1)

\* handle_message from its call to its first await or return, for an update
\* from a chat of chat_ids with a text of texts, to which the backend does
\* one of outcomes
HandleMessageCall(s, chat_ids, texts, outcomes) ==
    /\ UNCHANGED << gemini_model, calls >>
    /\ \E chat_id \in chat_ids, text \in texts :
        LET adm == AdmissionOf[chat_id][text]
            fr  == [ ev |-> arrivals + 1, handler |-> "handle_message",
                     chat_id |-> chat_id,
                     is_allowed_channel_interaction |->
                         adm.is_allowed_channel_interaction,
                     message_parts |-> <<>>, i |-> 0 ]
        IN  /\ Dispatched("handle_message", chat_id, text, "none", FALSE)
            /\ IF ~gemini_model THEN NotConfigured(s, fr)
               ELSE IF ~Admitted(adm) THEN Rejected(s)
               ELSE IF TooLong(adm.user_message_text) THEN InputTooLong(s, fr)
               ELSE \/ /\ NeedsSession(user_gemini_chats, chat_id)
                       /\ SessionInitError(s, fr)
                    \/ \E out \in outcomes :
                           Converse(s, fr, adm.user_message_text, out)

\* handle_message is called for the next update
HandleMessage(s) ==
    CanDispatch(s) /\ HandleMessageCall(s, ChatIds, MessageTexts, BackendOutcomes)

(***************************************************************************)
(* start and chat_member_handler                                           *)
(***************************************************************************)

NoReply == [via |-> "none", kind |-> "none"]

StartReplyAnyChannel(chat_id) ==
    IF ChatType(chat_id) = "private"
    THEN [via |-> "reply_html", kind |-> "welcome_private"]
    ELSE IF ChatType(chat_id) = "channel"
    THEN [via |-> "send_message", kind |-> "active_in_channel"]
    ELSE [via |-> "reply_html", kind |-> "welcome_group"]

\* start, lines 146-158: what /start answers in the chat, if anything
StartReply(chat_id) ==
    IF ChatType(chat_id) = "private"
    THEN [via |-> "reply_html", kind |-> "welcome_private"]
    ELSE IF ChatType(chat_id) = "channel"
    THEN IF chat_id \in ALLOWED_CHANNEL_IDS
         THEN [via |-> "send_message", kind |-> "active_in_channel"]
         ELSE NoReply
    ELSE [via |-> "reply_html", kind |-> "welcome_group"]

\* start up to its await or return
Start(s) ==
    /\ CanDispatch(s)
    /\ UNCHANGED << gemini_model, user_gemini_chats, sessions_started, backend_log,
                    calls >>
    /\ \E chat_id \in ChatIds :
        LET ev == arrivals + 1
            fr == [NoFrame EXCEPT !.ev = ev, !.handler = "start", !.chat_id = chat_id]
            reply == StartReply(chat_id)
        IN  /\ Dispatched("start", chat_id, <<>>, "none", FALSE)
            /\ IF reply # NoReply
               THEN /\ outbox' = Append(outbox,
                            Send(ev, "start", chat_id, reply.via, reply.kind, <<>>))
                    /\ Awaits(s, "await_start", fr)
               ELSE /\ UNCHANGED outbox
                    /\ Returns(s)

\* line 322: del user_gemini_chats[chat.id]
Evict(chats, chat_id) == [ k \in DOMAIN chats \ {chat_id} |-> chats[k] ]

AfterTransitionLeftOnly(chats, chat_id, new_status) ==
    IF new_status = "left" /\ chat_id \in DOMAIN chats
    THEN Evict(chats, chat_id)
    ELSE chats

AfterTransitionAnyStatus(chats, chat_id, new_status) ==
    IF chat_id \in DOMAIN chats
    THEN Evict(chats, chat_id)
    ELSE chats

\* lines 319-323: the session store after a transition to new_status in an
\* allowed channel
AfterTransition(chats, chat_id, new_status) ==
    IF new_status \in {"left", "kicked"} /\ chat_id \in DOMAIN chats
    THEN Evict(chats, chat_id)
    ELSE chats

\* chat_member_handler, lines 297-325, up to its await or return
ChatMemberHandler(s) ==
    /\ CanDispatch(s)
    /\ UNCHANGED << gemini_model, sessions_started, backend_log, calls >>
    /\ \E chat_id \in ChatIds, new_status \in Statuses :
       \E can_post \in IF new_status = "administrator" THEN BOOLEAN ELSE {FALSE} :
        LET ev == arrivals + 1
            fr == [NoFrame EXCEPT !.ev = ev, !.handler = "chat_member_handler",
                                  !.chat_id = chat_id]
        IN  /\ Dispatched("chat_member_handler", chat_id, <<>>, new_status, can_post)
            /\ IF ChatType(chat_id) = "channel" /\ chat_id \in ALLOWED_CHANNEL_IDS
               THEN IF new_status = "administrator"
                    THEN /\ UNCHANGED user_gemini_chats
                         /\ IF can_post
                            THEN /\ outbox' = Append(outbox,
                                         Send(ev, "chat_member_handler", chat_id,
                                              "send_message", "hello_channel", <<>>))
                                 /\ Awaits(s, "await_hello", fr)
                            ELSE /\ UNCHANGED outbox
                                 /\ Returns(s)
                    ELSE /\ user_gemini_chats' =
                                AfterTransition(user_gemini_chats, chat_id, new_status)
                         /\ UNCHANGED outbox
                         /\ Returns(s)
               ELSE /\ UNCHANGED user_gemini_chats
                    /\ UNCHANGED outbox
                    /\ Returns(s)

(***************************************************************************)
(* The awaited sends complete                                              *)
(***************************************************************************)

Suspended(s) == pc[s] # "idle"

\* the send coroutine s waits for
PendingIndex(s) ==
    CHOOSE n \in 1..Len(outbox) :
        outbox[n].ev = frame[s].ev /\ outbox[n].status = "pending"

Settle(s, status) == [outbox EXCEPT ![PendingIndex(s)].status = status]

\* the awaits whose exception no try statement of the handler catches
Uncaught == { "await_not_configured", "await_too_long", "await_start_error",
              "await_error", "await_start" }

\* error_handler, lines 291-294, answers in private chats
ErrorHandlerAnswers(chat_id) == ChatType(chat_id) = "private"

\* the transport delivered the message: the coroutine goes on to its next
\* await (the next part of the for loop of line 258) or returns
SendReturns(s) ==
    /\ Suspended(s)
    /\ UNCHANGED << gemini_model, user_gemini_chats, sessions_started, arrivals,
                    event, backend_log, calls >>
    /\ LET fr == frame[s]
       IN  IF pc[s] = "await_part" /\ fr.i + 1 < Len(fr.message_parts)
           THEN LET fr1 == [fr EXCEPT !.i = fr.i + 1]
                IN  /\ outbox' = Append(Settle(s, "sent"),
                            Answer(fr1, "part", FinalMessage(fr1.message_parts, fr1.i)))
                    /\ Awaits(s, "await_part", fr1)
           ELSE /\ outbox' = Settle(s, "sent")
                /\ Returns(s)

SendRaisesGoesOn(s) ==
    /\ Suspended(s)
    /\ UNCHANGED << gemini_model, user_gemini_chats, sessions_started, arrivals,
                    event, backend_log, calls >>
    /\ LET fr == frame[s]
       IN  IF pc[s] = "await_part" /\ fr.i + 1 < Len(fr.message_parts)
           THEN LET fr1 == [fr EXCEPT !.i = fr.i + 1]
                IN  /\ outbox' = Append(Settle(s, "failed"),
                            Answer(fr1, "part", FinalMessage(fr1.message_parts, fr1.i)))
                    /\ Awaits(s, "await_part", fr1)
           ELSE IF pc[s] = "await_part"
           THEN \E e \in TransportExceptions :
                    /\ outbox' = Append(Settle(s, "failed"),
                            Answer(fr, ErrorMessage(e), <<>>))
                    /\ Awaits(s, "await_error", fr)
           ELSE IF pc[s] \in Uncaught /\ ErrorHandlerAnswers(fr.chat_id)
           THEN /\ outbox' = Append(Settle(s, "failed"),
                        Send(fr.ev, "error_handler", fr.chat_id, "reply_text",
                             "bot_error", <<>>))
                /\ Awaits(s, "await_error_handler", fr)
           ELSE /\ outbox' = Settle(s, "failed")
                /\ Returns(s)

\* the transport raised
SendRaises(s) ==
    /\ Suspended(s)
    /\ UNCHANGED << gemini_model, user_gemini_chats, sessions_started, arrivals,
                    event, backend_log, calls >>
    /\ LET fr == frame[s]
       IN  IF pc[s] = "await_part"
           THEN \* caught at line 276
                \E e \in TransportExceptions :
                    /\ outbox' = Append(Settle(s, "failed"),
                            Answer(fr, ErrorMessage(e), <<>>))
                    /\ Awaits(s, "await_error", fr)
           ELSE IF pc[s] \in Uncaught /\ ErrorHandlerAnswers(fr.chat_id)
           THEN \* the application calls error_handler with the update
                /\ outbox' = Append(Settle(s, "failed"),
                        Send(fr.ev, "error_handler", fr.chat_id, "reply_text",
                             "bot_error", <<>>))
                /\ Awaits(s, "await_error_handler", fr)
           ELSE \* caught at line 315, or logged by the application
                /\ outbox' = Settle(s, "failed")
                /\ Returns(s)

\* every coroutine of the update has returned
Done == event # NoEvent /\ \A s \in Slots : pc[s] = "idle"

\* the application is done with the update; the logs of its sends and
\* backend calls start afresh for the next one
UpdateDone ==
    /\ Done
    /\ event' = NoEvent
    /\ outbox' = << >>
    /\ backend_log' = << >>
    /\ UNCHANGED << gemini_model, user_gemini_chats, sessions_started, arrivals,
                    pc, frame, calls >>

Next ==
    \/ \E s \in Slots :
           \/ HandleMessage(s)
           \/ Start(s)
           \/ ChatMemberHandler(s)
           \/ SendReturns(s)
           \/ SendRaises(s)
    \/ UpdateDone

Spec == Init /\ [][Next]_vars

(***************************************************************************)
(* Message handlers in flight together: the application starts the handler *)
(* of the next update while handlers of earlier ones are suspended at an   *)
(* await, as it does when built with concurrent_updates.  The transport    *)
(* delivers every message it is given.                                     *)
(***************************************************************************)

MaxConcurrentEvents == 2

\* the chats the updates come from
ConcurrentChats == {"user_chat", "group_chat"}

\* message.text of the updates delivered
ConcurrentTexts ==
    { <<"h", "i">>, <<" ">> \o Mention \o <<" ", "h", "i", "\n">>,
      Mention \o X(MAX_USER_MESSAGE_CHARS + 1) }

\* what chat.send_message does: a reply of no, one or two parts, or an
\* exception
ConcurrentOutcomes ==
    { [ok |-> TRUE, text |-> r, e |-> {}] :
          r \in { <<>>, <<"#", " ", "T", "\n", "o", "k">>,
                  X(MAX_TELEGRAM_MESSAGE_CHARS - 24) } }
        \cup { [ok |-> FALSE, text |-> <<>>, e |-> {}] }

\* a coroutine is free for the next update; the free ones are taken in order
CanDispatchConcurrently(s) ==
    /\ arrivals < MaxConcurrentEvents
    /\ pc[s] = "idle"
    /\ \A t \in Slots : t < s => pc[t] # "idle"

HandleMessageConcurrently(s) ==
    /\ CanDispatchConcurrently(s)
    /\ HandleMessageCall(s, ConcurrentChats, ConcurrentTexts, ConcurrentOutcomes)

ConcurrentInit == Init /\ gemini_model

ConcurrentNext ==
    \/ \E s \in Slots :
           \/ HandleMessageConcurrently(s)
           \/ SendReturns(s)
    \/ UpdateDone

ConcurrentSpec == ConcurrentInit /\ [][ConcurrentNext]_vars

(***************************************************************************)
(* split_message followed through its loop, on every short text            *)
(***************************************************************************)

MaxSplitLen == 5
MaxChunkLen == 3

SplitAlphabet == {"a", "b", " ", "\n", "\t"}

SplitTexts ==
    UNION { [1..n -> SplitAlphabet] : n \in 0..MaxSplitLen }

\* the call is made: chunks = [], remaining_text = text
SplitInit ==
    /\ BotInit /\ gemini_model
    /\ reply_call = NoReplyCall /\ compose_call = NoComposeCall
    /\ \E text \in SplitTexts, max_chunk_length \in 1..MaxChunkLen :
           split_call = [ text |-> text, max_chunk_length |-> max_chunk_length,
                    remaining_text |-> text, chunks |-> <<>>, at |-> "while" ]

\* one iteration of the while loop, lines 110-130
SplitIterate ==
    /\ split_call.at = "while"
    /\ Len(split_call.remaining_text) > split_call.max_chunk_length
    /\ LET st == SplitStep(split_call.remaining_text, split_call.max_chunk_length)
       IN  split_call' = [split_call EXCEPT !.chunks = Append(@, st[1]),
                                !.remaining_text = st[2]]
    /\ UNCHANGED << bot, reply_call, compose_call >>

\* the loop is left and the function returns, lines 132-136
SplitReturn ==
    /\ split_call.at = "while"
    /\ Len(split_call.remaining_text) <= split_call.max_chunk_length
    /\ split_call' = [split_call EXCEPT
                   !.chunks = SelectSeq(
                       IF Strip(split_call.remaining_text) # <<>>
                       THEN Append(@, Strip(split_call.remaining_text))
                       ELSE @, NonEmpty),
                   !.at = "returned"]
    /\ UNCHANGED << bot, reply_call, compose_call >>

SplitNext == SplitIterate \/ SplitReturn

SplitSpec == SplitInit /\ [][SplitNext]_vars

\* the interpreter goes on executing the function while it has a statement
\* left to execute
SplitFairSpec == SplitSpec /\ WF_vars(SplitNext)

(***************************************************************************)
(* The reply of the backend followed from line 237 to line 252, on every   *)
(* short reply                                                             *)
(***************************************************************************)

MaxReplyLen == 5

ReplyAlphabet == {"#", "*", "a", " ", "\n"}

ShortReplies ==
    UNION { [1..n -> ReplyAlphabet] : n \in 0..MaxReplyLen }

\* raw_gemini_text = api_response.text
ReplyInit ==
    /\ BotInit /\ gemini_model
    /\ split_call = NoCall /\ compose_call = NoComposeCall
    /\ \E raw_gemini_text \in ShortReplies :
           reply_call = [ raw_gemini_text |-> raw_gemini_text,
                          formatted_gemini_text |-> <<>>,
                          message_parts |-> <<>>, at |-> "received" ]

\* lines 238-242: the reply is effectively empty, handle_message returns
ReplyEmpty ==
    /\ reply_call.at = "received"
    /\ EffectivelyEmpty(reply_call.raw_gemini_text)
    /\ reply_call' = [reply_call EXCEPT !.at = "dropped"]
    /\ UNCHANGED << bot, split_call, compose_call >>

\* line 245
ReplyFormat ==
    /\ reply_call.at = "received"
    /\ ~EffectivelyEmpty(reply_call.raw_gemini_text)
    /\ reply_call' = [reply_call EXCEPT
           !.formatted_gemini_text =
               format_titles_with_low_line(reply_call.raw_gemini_text),
           !.at = "formatted"]
    /\ UNCHANGED << bot, split_call, compose_call >>

\* lines 251-252
ReplySplit ==
    /\ reply_call.at = "formatted"
    /\ reply_call' = [reply_call EXCEPT
           !.message_parts = split_message(reply_call.formatted_gemini_text,
                                           MAX_TELEGRAM_MESSAGE_CHARS - 25),
           !.at = "split"]
    /\ UNCHANGED << bot, split_call, compose_call >>

ReplyNext == ReplyEmpty \/ ReplyFormat \/ ReplySplit

ReplySpec == ReplyInit /\ [][ReplyNext]_vars

(***************************************************************************)
(* The for loop of line 258 followed on lists of parts, those of the       *)
(* replies above and longer ones                                           *)
(***************************************************************************)

MaxParts == 3

\* a chunk of n characters
Chunk(n) == X(n - 1) \o <<"y">>

ComposeChunks ==
    { Chunk(1), Chunk(MAX_TELEGRAM_MESSAGE_CHARS - 25),
      Chunk(MAX_TELEGRAM_MESSAGE_CHARS - 12),
      Chunk(MAX_TELEGRAM_MESSAGE_CHARS - 11),
      Chunk(MAX_TELEGRAM_MESSAGE_CHARS + 1) }

ComposeParts ==
    { PartsOf[r] : r \in { r \in ReplyTexts : PartsOf[r] # <<>> } }
        \cup UNION { [1..n -> ComposeChunks] : n \in 1..MaxParts }

ComposeInit ==
    /\ BotInit /\ gemini_model
    /\ split_call = NoCall /\ reply_call = NoReplyCall
    /\ \E message_parts \in ComposeParts :
           compose_call = [ message_parts |-> message_parts, i |-> 0,
                            final_message_to_send |-> <<>>, at |-> "for" ]

\* lines 258-270: final_message_to_send of the next part
ComposeIterate ==
    /\ compose_call.at \in {"for", "send"}
    /\ LET i == IF compose_call.at = "for" THEN 0 ELSE compose_call.i + 1
       IN  /\ i < Len(compose_call.message_parts)
           /\ compose_call' = [compose_call EXCEPT
                  !.i = i,
                  !.final_message_to_send = FinalMessage(compose_call.message_parts, i),
                  !.at = "send"]
    /\ UNCHANGED << bot, split_call, reply_call >>

\* the loop is over
ComposeEnd ==
    /\ compose_call.at = "send"
    /\ compose_call.i + 1 = Len(compose_call.message_parts)
    /\ compose_call' = [compose_call EXCEPT !.at = "done"]
    /\ UNCHANGED << bot, split_call, reply_call >>

ComposeNext == ComposeIterate \/ ComposeEnd

ComposeSpec == ComposeInit /\ [][ComposeNext]_vars

(***************************************************************************)
(* Properties                                                              *)
(***************************************************************************)

\* a handler is called in this step
Dispatch == event' # event /\ event' # NoEvent

\* handle_message is called in this step
MessageDispatch == Dispatch /\ event'.handler = "handle_message"

\* a channel that is not on the allow-list
OutsideAllowList(chat_id) ==
    ChatType(chat_id) = "channel" /\ chat_id \notin ALLOWED_CHANNEL_IDS

AllIdle(p) == \A s \in Slots : p[s] = "idle"

\* the entries of a log that satisfy Test(_)
Count(log, Test(_)) == Cardinality({ n \in 1..Len(log) : Test(log[n]) })

\* C1: the session store never holds an entry for a channel outside the
\* allow-list, and a message event from such a channel is rejected at once:
\* the store after it is the store before it, the backend was not called,
\* nothing was sent and the handler has returned.
C1_RejectedChannelLeavesStore ==
    [][ /\ \A c \in DOMAIN user_gemini_chats' : ~OutsideAllowList(c)
        /\ (MessageDispatch /\ OutsideAllowList(event'.chat_id))
              => /\ user_gemini_chats' = user_gemini_chats
                 /\ backend_log' = << >>
                 /\ outbox' = << >>
                 /\ AllIdle(pc') ]_vars

\* a message event from a channel outside the allow-list was handled while
\* the store held sessions
C1_Witness ==
    /\ Done /\ gemini_model
    /\ event.handler = "handle_message"
    /\ OutsideAllowList(event.chat_id)
    /\ DOMAIN user_gemini_chats # {}

\* C2: no send of any handler ever goes to a channel outside the allow-list.
C2_NoSendOutsideAllowList ==
    \A n \in 1..Len(outbox) : ~OutsideAllowList(outbox[n].chat_id)

\* the bot was made administrator with post permission of a channel outside
\* the allow-list, and the handler has returned
C2_Witness ==
    /\ Done
    /\ event.handler = "chat_member_handler"
    /\ OutsideAllowList(event.chat_id)
    /\ event.new_status = "administrator" /\ event.can_post

\* s without the characters of any occurrence of sub (occurrences of a
\* mention cannot overlap: "@" is its first character only)
WithoutOccurrences(s, sub) ==
    LET Covered(i) == \E j \in 1..Len(sub) : i - j + 1 >= 1 /\ MatchAt(s, sub, i - j + 1)
        Kept(i) == ~Covered(i)
        keep == SelectSeq([i \in 1..Len(s) |-> i], Kept)
    IN  [k \in 1..Len(keep) |-> s[keep[k]]]

\* the group message addresses the bot and says something besides
Addressed(text) ==
    /\ Contains(text, Mention)
    /\ Strip(WithoutOccurrences(text, Mention)) # <<>>

\* the message texts of the model that do
AddressedTexts == { t \in MessageTexts : Addressed(t) }

\* what the event of a step leaves behind when it was rejected silently
SilentlyRejected ==
    /\ outbox' = << >>
    /\ backend_log' = << >>
    /\ user_gemini_chats' = user_gemini_chats
    /\ AllIdle(pc')

\* the event of a step went past the admission: the length guard answered
\* it or the backend was called
Processed == outbox' # << >> \/ backend_log' # << >>

\* C3 as stated: a group message is accepted iff it holds the mention and
\* something is left without it; otherwise it is rejected silently.
C3_GroupAcceptedIffAddressed ==
    [][ (MessageDispatch /\ ChatType(event'.chat_id) = "group")
           => IF event'.text \in AddressedTexts THEN Processed ELSE SilentlyRejected ]_vars

\* C3 amended: a group message is accepted iff the Gemini model is
\* configured, the text holds the mention and something is left without it;
\* otherwise it is rejected silently: no send, no backend call, the store
\* unchanged.
C3_GroupAcceptedIffConfiguredAndAddressed ==
    [][ (MessageDispatch /\ ChatType(event'.chat_id) = "group")
           => IF gemini_model /\ event'.text \in AddressedTexts
              THEN Processed ELSE SilentlyRejected ]_vars

\* a group message that is nothing but the mention was rejected while the
\* store held sessions
C3_Witness ==
    /\ Done /\ gemini_model
    /\ event.handler = "handle_message" /\ ChatType(event.chat_id) = "group"
    /\ event.text = Mention
    /\ outbox = << >> /\ backend_log = << >>
    /\ DOMAIN user_gemini_chats # {}

\* the text a group message event sent to the backend
SentToBackend(n) ==
    /\ backend_log[n].op = "send_message"
    /\ backend_log[n].ev = event.ev
    /\ event.handler = "handle_message" /\ ChatType(event.chat_id) = "group"

\* the message texts of the model with the first mention removed, trimmed
FirstMentionRemoved ==
    [ t \in MessageTexts |-> Strip(RemoveFirst(Strip(t), Mention)) ]

\* the message texts of the model with every mention removed, trimmed
EveryMentionRemoved ==
    [ t \in MessageTexts |-> Strip(WithoutOccurrences(Strip(t), Mention)) ]

\* C4 as stated: the text forwarded for a group message is the raw text
\* with the first mention removed, trimmed; later mentions are kept.
C4_FirstMentionRemoved ==
    \A n \in 1..Len(backend_log) :
        SentToBackend(n)
            => backend_log[n].text = FirstMentionRemoved[event.text]

\* C4 amended: the text forwarded for a group message is the raw text with
\* every occurrence of the mention removed, trimmed.
C4_EveryMentionRemoved ==
    \A n \in 1..Len(backend_log) :
        SentToBackend(n)
            => backend_log[n].text = EveryMentionRemoved[event.text]

\* a group message with two mentions was forwarded
C4_Witness ==
    /\ event.text = Mention \o <<" ">> \o Mention \o <<" ", "h", "i">>
    /\ \E n \in 1..Len(backend_log) : SentToBackend(n)

\* the backend calls made in a step
NewCalls ==
    IF Len(backend_log') > Len(backend_log)
    THEN SubSeq(backend_log', Len(backend_log) + 1, Len(backend_log'))
    ELSE << >>

\* C5: while a context has a session, every step keeps its handle and calls
\* start_chat for it no more, and every send_message of the context goes to
\* that handle; a session appears only in the step of a message event of
\* its context, by exactly one start_chat, with a handle no other context
\* holds.
C5_OneSessionPerContext ==
    [][ /\ \A c \in DOMAIN user_gemini_chats :
             /\ c \in DOMAIN user_gemini_chats'
                   => user_gemini_chats'[c].id = user_gemini_chats[c].id
             /\ \A n \in 1..Len(NewCalls) :
                    NewCalls[n].chat_id = c
                       => /\ NewCalls[n].op = "send_message"
                          /\ NewCalls[n].session = user_gemini_chats[c].id
        /\ \A c \in DOMAIN user_gemini_chats' \ DOMAIN user_gemini_chats :
             /\ MessageDispatch /\ event'.chat_id = c
             /\ Cardinality({ n \in 1..Len(NewCalls) :
                                NewCalls[n].op = "start_chat" }) = 1
             /\ NewCalls[1].op = "start_chat" /\ NewCalls[1].ok
             /\ NewCalls[1].session = user_gemini_chats'[c].id
             /\ \A d \in DOMAIN user_gemini_chats :
                    user_gemini_chats[d].id # user_gemini_chats'[c].id ]_vars

\* the second accepted message of a context was answered by the session of
\* the first
C5_Witness ==
    /\ Done /\ event.handler = "handle_message"
    /\ event.chat_id \in DOMAIN user_gemini_chats
    /\ Len(user_gemini_chats[event.chat_id].history) = 2
    /\ sessions_started = 1

\* C6: a transition to left or kicked in a channel leaves no session for
\* the channel (and touches no other session); a message event that reaches
\* the backend for a context without a session calls start_chat first, and
\* the session it gets has a handle never handed out before and a history
\* that holds nothing from before the event.
C6_EvictedThenFresh ==
    [][ /\ ( /\ Dispatch /\ event'.handler = "chat_member_handler"
             /\ ChatType(event'.chat_id) = "channel"
             /\ event'.new_status \in {"left", "kicked"} )
              => /\ event'.chat_id \notin DOMAIN user_gemini_chats'
                 /\ \A c \in DOMAIN user_gemini_chats \ {event'.chat_id} :
                        /\ c \in DOMAIN user_gemini_chats'
                        /\ user_gemini_chats'[c] = user_gemini_chats[c]
        /\ ( /\ MessageDispatch /\ backend_log' # << >>
             /\ event'.chat_id \notin DOMAIN user_gemini_chats )
              => /\ backend_log'[1].op = "start_chat"
                 /\ backend_log'[1].ok
                       => /\ event'.chat_id \in DOMAIN user_gemini_chats'
                          /\ user_gemini_chats'[event'.chat_id].id > sessions_started
                          /\ user_gemini_chats'[event'.chat_id].history
                                \in { << >>, << event'.ev >> } ]_vars

\* the allowed channel got a session, lost it when the bot left or was
\* kicked, and got a second one from the next message
C6_Witness ==
    /\ Done /\ event.handler = "handle_message"
    /\ event.chat_id = "allowed_channel"
    /\ DOMAIN user_gemini_chats = {"allowed_channel"}
    /\ user_gemini_chats["allowed_channel"].id = 2

\* the admission of the message event at hand
Adm == AdmissionOf[event.chat_id][event.text]

\* the event at hand is a message event that passed the admission
AdmittedEvent ==
    /\ event.handler = "handle_message" /\ gemini_model
    /\ Admitted(Adm)

IsTooLongNotice(m) == m.kind = "too_long"
ByHandleMessage(m) == m.by = "handle_message"
ByErrorHandler(m) == m.by = "error_handler"

\* C7: an admitted event whose effective text is longer than the cap gets
\* exactly one "too long" message, which is all handle_message sends, and
\* the backend is not called at all; a text of exactly the cap is not
\* stopped by the guard: no "too long" message, and the backend is called.
C7_LengthGuard ==
    /\ (AdmittedEvent /\ Len(Adm.user_message_text) >= MAX_USER_MESSAGE_CHARS + 1)
          => /\ backend_log = << >>
             /\ Count(outbox, IsTooLongNotice) = 1
             /\ Count(outbox, ByHandleMessage) = 1
             /\ outbox[1].kind = "too_long" /\ outbox[1].chat_id = event.chat_id
    /\ (AdmittedEvent /\ Len(Adm.user_message_text) = MAX_USER_MESSAGE_CHARS)
          => /\ Count(outbox, IsTooLongNotice) = 0
             /\ backend_log # << >>

\* a group message whose text without the mention is one character over the
\* cap was answered, and the handler has returned
C7_Witness ==
    /\ Done /\ AdmittedEvent
    /\ ChatType(event.chat_id) = "group"
    /\ Len(Adm.user_message_text) = MAX_USER_MESSAGE_CHARS + 1
    /\ Len(outbox) = 1 /\ outbox[1].status = "sent"

\* start_chat raised for the event whose log this is
StartFailed(log) == log # << >> /\ log[1].op = "start_chat" /\ ~log[1].ok

\* C8 as stated: when start_chat fails exactly one message, the error
\* message, is sent for the event; nothing is stored and send_message is not
\* called.
C8_ExactlyOneErrorMessage ==
    StartFailed(backend_log)
        => /\ Len(outbox) = 1 /\ outbox[1].kind = "start_error"
           /\ Len(backend_log) = 1
           /\ event.chat_id \notin DOMAIN user_gemini_chats

\* what a failed start_chat leaves in the logs and the store
InitErrorHandled(out, log, chats, ev) ==
    /\ Len(log) = 1
    /\ ev.chat_id \notin DOMAIN chats
    /\ out # << >>
    /\ out[1].by = "handle_message" /\ out[1].kind = "start_error"
    /\ out[1].chat_id = ev.chat_id
    /\ Len(out) <= 2
    /\ Len(out) = 2
          => /\ out[2].by = "error_handler" /\ out[2].kind = "bot_error"
             /\ out[1].status = "failed"
             /\ ChatType(ev.chat_id) = "private"

\* C8 amended: when start_chat fails handle_message sends exactly one
\* message, the error message; nothing is stored (the store is unchanged)
\* and send_message is not called; only if that send fails in a private chat
\* does error_handler send one further message.  A later message event that
\* reaches the backend for a context without a session calls start_chat
\* first.
C8_InitErrorAnsweredOnceByHandler ==
    [][ /\ StartFailed(backend_log') => InitErrorHandled(outbox', backend_log',
                                                          user_gemini_chats', event')
        /\ (MessageDispatch /\ StartFailed(backend_log'))
              => user_gemini_chats' = user_gemini_chats
        /\ ( /\ MessageDispatch /\ backend_log' # << >>
             /\ event'.chat_id \notin DOMAIN user_gemini_chats )
              => /\ backend_log'[1].op = "start_chat"
                 /\ backend_log'[1].chat_id = event'.chat_id ]_vars

\* start_chat failed for the second message in a row of a private chat, and
\* the send of the error message failed too
C8_Witness ==
    /\ Done /\ StartFailed(backend_log)
    /\ event.ev >= 2 /\ sessions_started = 0
    /\ Len(outbox) = 2

\* send_message raised for the event whose log this is
BackendFailed(log) ==
    \E n \in 1..Len(log) : log[n].op = "send_message" /\ ~log[n].ok

\* the exception send_message raised
Raised(log) ==
    log[CHOOSE n \in 1..Len(log) : log[n].op = "send_message" /\ ~log[n].ok].e

\* the message of each cause, lines 278-285
MessageOfCause(e) ==
    CASE e = {"model not found"}   -> "model_not_found"
      [] e = {"too many tokens"}   -> "conversation_too_long"
      [] e = {"deadline exceeded"} -> "took_too_long"
      [] e = {"permission denied"} -> "authentication_error"
      [] e = {"quota"}             -> "usage_limit"
      [] e = {}                    -> "generic_error"

IsPart(m) == m.kind = "part"

\* C9 as stated: when the backend call fails the event produces exactly one
\* outbound message, the error message of the cause, and the session stays.
C9_ExactlyOneOutboundMessage ==
    BackendFailed(backend_log)
        => /\ Len(outbox) = 1
           /\ outbox[1].kind = MessageOfCause(Raised(backend_log))
           /\ event.chat_id \in DOMAIN user_gemini_chats

\* C9 amended: when the backend call fails handle_message sends exactly one
\* message, the error message of the cause, and no reply chunk, and the
\* session of the context stays in the store; only if that send fails in a
\* private chat does error_handler send one further message.
C9_BackendErrorAnsweredOnceByHandler ==
    BackendFailed(backend_log)
        => /\ outbox # << >>
           /\ outbox[1].by = "handle_message"
           /\ outbox[1].kind = MessageOfCause(Raised(backend_log))
           /\ outbox[1].chat_id = event.chat_id
           /\ Count(outbox, ByHandleMessage) = 1
           /\ Count(outbox, IsPart) = 0
           /\ event.chat_id \in DOMAIN user_gemini_chats
           /\ Len(outbox) <= 2
           /\ Len(outbox) = 2
                 => /\ outbox[2].by = "error_handler" /\ outbox[2].kind = "bot_error"
                    /\ outbox[1].status = "failed"
                    /\ ChatType(event.chat_id) = "private"

\* the backend exceeded its deadline, the error message was delivered and
\* the handler has returned
C9_Witness ==
    /\ Done /\ BackendFailed(backend_log)
    /\ Raised(backend_log) = {"deadline exceeded"}
    /\ Len(outbox) = 1 /\ outbox[1].status = "sent"

\* C10: every chunk split_message returns has at least one character and at
\* most max_chunk_length.
C10_ChunkLengths ==
    split_call.at = "returned"
        => \A n \in 1..Len(split_call.chunks) :
               /\ Len(split_call.chunks[n]) >= 1
               /\ Len(split_call.chunks[n]) <= split_call.max_chunk_length

\* a text without newline or space was cut into chunks of full length
C10_Witness ==
    /\ split_call.at = "returned"
    /\ Len(split_call.chunks) >= 2
    /\ Len(split_call.chunks[1]) = split_call.max_chunk_length
    /\ \A i \in 1..Len(split_call.text) : split_call.text[i] = "a"

IsVisible(c) == c \notin Whitespace

\* the characters of s that are not whitespace, in order
Visible(s) == SelectSeq(s, IsVisible)

\* "".join(seqs)
RECURSIVE Concat(_)
Concat(seqs) == IF seqs = <<>> THEN <<>> ELSE seqs[1] \o Concat(Tail(seqs))

\* C11: the chunks split_message returns, taken in order, hold exactly the
\* non-whitespace characters of the text, in the order of the text; and at
\* every point of the loop so do the chunks cut so far followed by the
\* remaining text.
C11_VisibleCharactersKept ==
    /\ split_call.at = "while"
          => Visible(Concat(split_call.chunks) \o split_call.remaining_text)
                 = Visible(split_call.text)
    /\ split_call.at = "returned"
          => Visible(Concat(split_call.chunks)) = Visible(split_call.text)

\* a text with both letters was cut into several chunks and lost whitespace
\* at the cuts
C11_Witness ==
    /\ split_call.at = "returned"
    /\ Len(split_call.chunks) >= 2
    /\ \E i, j \in 1..Len(split_call.text) :
           split_call.text[i] = "a" /\ split_call.text[j] = "b"
    /\ Len(Concat(split_call.chunks)) < Len(split_call.text)

\* the call at hand has returned and its text was no longer than
\* max_chunk_length
ShortTextSplit ==
    /\ split_call.at = "returned"
    /\ Len(split_call.text) <= split_call.max_chunk_length

\* C12 as stated: for every text no longer than max_chunk_length,
\* split_message returns exactly one element, the trimmed text, and the
\* message composed for it has no header.
C12_SingleChunkIdentity ==
    ShortTextSplit
        => /\ split_call.chunks = << Strip(split_call.text) >>
           /\ FinalMessage(split_call.chunks, 0) = Strip(split_call.text)

\* C12 amended: for every text no longer than max_chunk_length that holds a
\* non-whitespace character, split_message returns exactly one element, the
\* trimmed text, and the message composed for it is that element without a
\* header; for an empty or whitespace-only text it returns no element.
C12_SingleChunkUnlessBlank ==
    ShortTextSplit
        => IF Strip(split_call.text) = <<>>
           THEN split_call.chunks = <<>>
           ELSE /\ split_call.chunks = << Strip(split_call.text) >>
                /\ FinalMessage(split_call.chunks, 0) = Strip(split_call.text)

\* a short text with whitespace around its letters came back as one chunk
C12_Witness ==
    /\ ShortTextSplit
    /\ Len(split_call.chunks) = 1
    /\ Len(split_call.chunks[1]) < Len(split_call.text)

\* the greatest index i < m (counted from 0) with r[i] = ch, -1 if none
LastBelow(r, ch, m) ==
    LET S == { i \in 0..(m - 1) : i < Len(r) /\ r[i + 1] = ch }
    IN  IF S = {} THEN -1 ELSE CHOOSE i \in S : \A j \in S : j <= i

\* this step is an iteration of the while loop
Iteration ==
    /\ split_call.at = "while" /\ split_call'.at = "while"
    /\ split_call'.chunks # split_call.chunks

\* C18: an iteration cuts at the last newline whose index is less than
\* max_chunk_length; without such a newline at the last space whose index is
\* less than max_chunk_length; without either it cuts off exactly
\* max_chunk_length characters.
C18_SplitPreference ==
    [][ Iteration =>
          LET r   == split_call.remaining_text
              m   == split_call.max_chunk_length
              nl  == LastBelow(r, "\n", m)
              sp  == LastBelow(r, " ", m)
              cut == IF nl # -1 THEN nl ELSE sp
              chunk == split_call'.chunks[Len(split_call'.chunks)]
          IN  /\ Len(r) > m
              /\ Len(split_call'.chunks) = Len(split_call.chunks) + 1
              /\ IF cut # -1
                 THEN /\ chunk = Strip(SubSeq(r, 1, cut))
                      /\ split_call'.remaining_text = Strip(SubSeq(r, cut + 1, Len(r)))
                 ELSE /\ chunk = SubSeq(r, 1, m)
                      /\ Len(chunk) = m
                      /\ split_call'.remaining_text = SubSeq(r, m + 1, Len(r)) ]_vars

\* a text with a space after its last newline, both before the boundary,
\* was cut at the newline
C18_Witness ==
    /\ Len(split_call.chunks) = 1
    /\ split_call.chunks[1] # <<>>
    /\ LET r  == split_call.text
           m  == split_call.max_chunk_length
           nl == LastBelow(r, "\n", m)
           sp == LastBelow(r, " ", m)
       IN  /\ Len(r) > m
           /\ nl # -1 /\ sp > nl
           /\ split_call.chunks[1] = Strip(SubSeq(r, 1, nl))

\* C20: every iteration of the loop leaves a remaining text strictly shorter
\* than it found, and every call of split_message returns.
C20_Terminates ==
    /\ [][ Iteration => Len(split_call'.remaining_text)
                            < Len(split_call.remaining_text) ]_vars
    /\ <>(split_call.at = "returned")

\* the first iteration cut at index 0 a text longer than max_chunk_length
\* that starts with a space or a newline, and the call went on to return
C20_Witness ==
    /\ split_call.at = "returned"
    /\ Len(split_call.text) > split_call.max_chunk_length
    /\ split_call.text[1] \in {" ", "\n"}
    /\ \A i \in 2..split_call.max_chunk_length :
           split_call.text[i] \notin {" ", "\n"}
    /\ split_call.chunks # <<>>

\* C19: a step takes an entry out of the session store only if it is the
\* call of chat_member_handler for a transition to left or kicked in a
\* channel, and then the entry of that channel only; every other step (message
\* events with any outcome, /start, transitions to other statuses,
\* transitions outside channels, completions of sends) keeps every context
\* the store holds.
C19_OnlyRemovalEvicts ==
    [][ \/ DOMAIN user_gemini_chats \subseteq DOMAIN user_gemini_chats'
        \/ /\ Dispatch /\ event'.handler = "chat_member_handler"
           /\ ChatType(event'.chat_id) = "channel"
           /\ event'.new_status \in {"left", "kicked"}
           /\ DOMAIN user_gemini_chats \ DOMAIN user_gemini_chats'
                 = {event'.chat_id} ]_vars

\* the bot became a plain member of the allowed channel, whose session is
\* still in the store
C19_Witness ==
    /\ Done /\ event.handler = "chat_member_handler"
    /\ event.chat_id = "allowed_channel" /\ event.new_status = "member"
    /\ "allowed_channel" \in DOMAIN user_gemini_chats

\* the backend answered the event whose log this is
Answered(log) == \E n \in 1..Len(log) : log[n].op = "send_message" /\ log[n].ok

\* api_response.text of that answer
ReplyOf(log) ==
    log[CHOOSE n \in 1..Len(log) : log[n].op = "send_message" /\ log[n].ok].reply

\* "(Part k/N)" and two newlines for chunk k of N > 1, nothing for N = 1
HeaderText(k, N) ==
    IF N > 1
    THEN <<"(", "P", "a", "r", "t", " ">> \o Str(k) \o <<"/">> \o Str(N)
             \o <<")", "\n", "\n">>
    ELSE <<>>

\* per reply of the model, the messages its chunks are to be sent as
ExpectedMessages ==
    [ r \in ReplyTexts |->
        [ k \in 1..Len(PartsOf[r]) |->
            HeaderText(k, Len(PartsOf[r])) \o PartsOf[r][k] ] ]

\* the sends of reply chunks, in the order they were started
PartSends == SelectSeq(outbox, IsPart)

\* C13: the sends of the chunks of a reply are started in the order 1..N,
\* the send of a chunk is started only when the sends of all chunks before it
\* have completed, and chunk k of N is sent as "(Part k/N)" and two newlines
\* followed by the chunk if N > 1, as the chunk alone if N = 1.
C13_PartsInOrder ==
    /\ PartSends # <<>> => Answered(backend_log)
    /\ Answered(backend_log)
          => LET expected == ExpectedMessages[ReplyOf(backend_log)]
             IN  /\ Len(PartSends) <= Len(expected)
                 /\ \A k \in 1..Len(PartSends) :
                        /\ PartSends[k].text = expected[k]
                        /\ PartSends[k].chat_id = event.chat_id
                        /\ k < Len(PartSends) => PartSends[k].status = "sent"

\* a reply of three chunks was sent whole
C13_Witness ==
    /\ Done
    /\ Len(PartSends) = 3
    /\ \A k \in 1..3 : PartSends[k].status = "sent"

\* the history of the session of context c, empty if it has none
HistoryOf(chats, c) == IF c \in DOMAIN chats THEN chats[c].history ELSE << >>

\* the events of context c the backend answered in the calls of log, in the
\* order of the calls
TurnsOf(log, c) ==
    LET Turn(call) == call.op = "send_message" /\ call.ok /\ call.chat_id = c
        turns == SelectSeq(log, Turn)
    IN  [ n \in 1..Len(turns) |-> turns[n].ev ]

\* C14: with message handlers in flight together, a context that has a
\* session keeps that very session in every step and start_chat is not
\* called for it again; every step appends to the history of a context the
\* events of the context the backend answered in the step, and nothing else;
\* the turns of a history are in the order the events arrived, none twice.
C14_OneSessionTurnsInOrder ==
    [][ \A c \in ChatIds :
          /\ c \in DOMAIN user_gemini_chats
                => /\ c \in DOMAIN user_gemini_chats'
                   /\ user_gemini_chats'[c].id = user_gemini_chats[c].id
                   /\ \A n \in 1..Len(NewCalls) :
                          NewCalls[n].chat_id = c
                             => /\ NewCalls[n].op = "send_message"
                                /\ NewCalls[n].session = user_gemini_chats[c].id
          /\ HistoryOf(user_gemini_chats', c)
                = HistoryOf(user_gemini_chats, c) \o TurnsOf(NewCalls, c)
          /\ \A i, j \in 1..Len(HistoryOf(user_gemini_chats', c)) :
                 i < j => HistoryOf(user_gemini_chats', c)[i]
                              < HistoryOf(user_gemini_chats', c)[j] ]_vars

\* the handlers of two events of one chat are both suspended, the backend
\* answered both, and one session holds the two turns
C14_Witness ==
    /\ pc[1] # "idle" /\ pc[2] # "idle"
    /\ frame[1].chat_id = frame[2].chat_id
    /\ HistoryOf(user_gemini_chats, frame[1].chat_id) = << 1, 2 >>
    /\ sessions_started = 1

\* the session of its context holds a turn of the event at hand
TurnRecorded ==
    \E n \in 1..Len(HistoryOf(user_gemini_chats, event.chat_id)) :
        HistoryOf(user_gemini_chats, event.chat_id)[n] = event.ev

\* the backend answered the event at hand and every chunk of the reply was
\* delivered
ReachedSent ==
    /\ Answered(backend_log)
    /\ PartSends # << >>
    /\ Len(PartSends) = Len(PartsOf[ReplyOf(backend_log)])
    /\ \A k \in 1..Len(PartSends) : PartSends[k].status = "sent"

\* C16: when a message event is over, the history of its context holds a
\* turn of the event only if the backend call succeeded and the reply was
\* formatted, split and sent whole; an event that ended in a backend
\* failure, an empty or whitespace-only reply or a failed send has left no
\* turn.
C16_TurnOnlyWhenSent ==
    (Done /\ event.handler = "handle_message")
        => (TurnRecorded => ReachedSent)

\* the characters with a meaning in the rich-text dialect of the transport
Reserved == {"_", "*", "[", "]", "(", ")", "~", ">", "#", "+", "-", "=",
             "|", "{", "}", ".", "!"}

IsNotBackslash(c) == c # "\\"
IsNotLowLine(c) == c # COMBINING_LOW_LINE

\* the text before a final newline, if it has one
WithoutFinalNewline(s) ==
    IF s # <<>> /\ s[Len(s)] = "\n" THEN SubSeq(s, 1, Len(s) - 1) ELSE s

\* how many of f[a], f[a+1], ..., f[b] in a row, from f[a] on, belong to S
RunFrom(f, a, b, S) ==
    IF \A j \in a..b : f[j] \in S
    THEN b - a + 1
    ELSE (CHOOSE j \in a..b :
              /\ f[j] \notin S
              /\ \A k \in a..(j - 1) : f[k] \in S) - a

\* position p of f lies in the title of a header line: the line of p starts
\* with one or more "#" followed by one or more blanks, something follows
\* the blanks, and p is not before it
InTitle(f, p) ==
    LET first == IF \E j \in 1..(p - 1) : f[j] = "\n"
                 THEN 1 + CHOOSE j \in 1..(p - 1) :
                              /\ f[j] = "\n"
                              /\ \A k \in (j + 1)..(p - 1) : f[k] # "\n"
                 ELSE 1
        last  == IF \E j \in p..Len(f) : f[j] = "\n"
                 THEN (CHOOSE j \in p..Len(f) :
                           /\ f[j] = "\n"
                           /\ \A k \in p..(j - 1) : f[k] # "\n") - 1
                 ELSE Len(f)
        hashes == RunFrom(f, first, last, {"#"})
        blanks == RunFrom(f, first + hashes, last, Whitespace)
    IN  /\ f[p] # "\n"
        /\ hashes >= 1 /\ blanks >= 1
        /\ first + hashes + blanks <= last
        /\ p >= first + hashes + blanks

\* the reply at hand went through format_titles_with_low_line
Formatted == reply_call.at \in {"formatted", "split"}

\* every reserved character of s has a backslash before it
EscapedIn(s) ==
    \A p \in 1..Len(s) : s[p] \in Reserved => p > 1 /\ s[p - 1] = "\\"

Composed == compose_call.at \in {"send", "done"}

\* C17: every message composed for a part is no longer than
\* MAX_TELEGRAM_MESSAGE_CHARS and starts with the whole header of the part;
\* after the header comes the part, whole if the part is no longer than
\* MAX_TELEGRAM_MESSAGE_CHARS - 25, and otherwise as much from its start as
\* the limit leaves room for.
C17_MessageWithinLimit ==
    Composed
        => LET parts  == compose_call.message_parts
               k      == compose_call.i + 1
               header == HeaderText(k, Len(parts))
               final  == compose_call.final_message_to_send
               room   == MAX_TELEGRAM_MESSAGE_CHARS - Len(header)
               kept   == IF Len(parts[k]) <= room THEN Len(parts[k]) ELSE room
           IN  /\ Len(final) <= MAX_TELEGRAM_MESSAGE_CHARS
               /\ Len(final) = Len(header) + kept
               /\ SubSeq(final, 1, Len(header)) = header
               /\ SubSeq(final, Len(header) + 1, Len(final)) = SubSeq(parts[k], 1, kept)
               /\ Len(parts[k]) <= MAX_TELEGRAM_MESSAGE_CHARS - 25
                     => final = header \o parts[k]

\* the second of three parts was too long for its header and the limit, and
\* lost its last character
C17_Witness ==
    /\ compose_call.at = "send" /\ compose_call.i = 1
    /\ Len(compose_call.message_parts) = 3
    /\ Len(compose_call.message_parts[2]) = MAX_TELEGRAM_MESSAGE_CHARS - 11
    /\ Len(compose_call.final_message_to_send) = MAX_TELEGRAM_MESSAGE_CHARS
    /\ compose_call.final_message_to_send[MAX_TELEGRAM_MESSAGE_CHARS] = "x"

\* the send of a reply chunk of the event at hand failed
PartFailed == \E k \in 1..Len(PartSends) : PartSends[k].status = "failed"

\* the messages of the except clause for what the transport may raise
TransportErrorMessages == { MessageOfCause(e) : e \in TransportExceptions }

\* the sends of the event up to the failed chunk: chunks 1..i in order, each
\* once, all before i delivered, and chunk i the last chunk whose send was
\* started
ChunksUpToFailed(i) ==
    /\ Answered(backend_log)
    /\ i <= Len(PartsOf[ReplyOf(backend_log)])
    /\ \A k \in 1..i :
           /\ outbox[k] = PartSends[k]
           /\ outbox[k].text = ExpectedMessages[ReplyOf(backend_log)][k]
           /\ outbox[k].status = IF k < i THEN "sent" ELSE "failed"

\* C21 as stated: when the send of chunk i fails, chunk i is not sent again,
\* no later chunk is sent, exactly one error message is sent for the event,
\* chunks 1..i-1 stay sent and the session of the context stays in the store.
C21_FailedChunkOneErrorMessage ==
    PartFailed
        => LET i == Len(PartSends)
           IN  /\ ChunksUpToFailed(i)
               /\ Len(outbox) = i + 1
               /\ outbox[i + 1].kind \in TransportErrorMessages
               /\ event.chat_id \in DOMAIN user_gemini_chats

\* C21 amended: when the send of chunk i fails, chunk i is not sent again,
\* no later chunk is sent, handle_message sends exactly one error message,
\* right after the failed chunk, chunks 1..i-1 stay sent and the session of
\* the context stays in the store; only if the send of that error message
\* fails in a private chat does error_handler send one further message.
C21_FailedChunkAnsweredOnceByHandler ==
    PartFailed
        => LET i == Len(PartSends)
           IN  /\ ChunksUpToFailed(i)
               /\ Len(outbox) >= i + 1
               /\ outbox[i + 1].by = "handle_message"
               /\ outbox[i + 1].kind \in TransportErrorMessages
               /\ outbox[i + 1].chat_id = event.chat_id
               /\ Count(outbox, ByHandleMessage) = i + 1
               /\ event.chat_id \in DOMAIN user_gemini_chats
               /\ Len(outbox) <= i + 2
               /\ Len(outbox) = i + 2
                     => /\ outbox[i + 2].by = "error_handler"
                        /\ outbox[i + 2].kind = "bot_error"
                        /\ outbox[i + 1].status = "failed"
                        /\ ChatType(event.chat_id) = "private"

\* the second chunk of a reply of three chunks failed in the allowed
\* channel, the error message was delivered and the handler has returned
C21_Witness ==
    /\ Done /\ PartFailed
    /\ event.chat_id = "allowed_channel"
    /\ Len(PartsOf[ReplyOf(backend_log)]) = 3
    /\ Len(PartSends) = 2
    /\ Len(outbox) = 3 /\ outbox[3].status = "sent"

\* following the loop step by step gives what split_message gives
SplitCallAgrees ==
    split_call.at = "returned"
        => split_call.chunks = split_message(split_call.text, split_call.max_chunk_length)

TypeOK ==
    /\ gemini_model \in BOOLEAN
    /\ DOMAIN user_gemini_chats \subseteq ChatIds
    /\ sessions_started \in 0..MaxEvents
    /\ arrivals \in 0..MaxEvents
    /\ \A s \in Slots : pc[s] = "idle" <=> frame[s] = NoFrame

====
